---- MODULE Spec2Model ----
(***************************************************************************)
(* Live search modal of the simple-search plugin (src/main.ts): the        *)
(* string utilities, the document scan performLiveSearch and the           *)
(* LiveSearchModal controller with its debounce timer and AbortController. *)
(*                                                                         *)
(* A JavaScript string is a sequence of UTF-16 code units; it is modelled  *)
(* as a sequence of integers (97 is "a", 65 is "A", 32 is the space,       *)
(* 10 is the line feed, 95 is "_").  Indices into strings are 0-based as   *)
(* in the source; SubSeq is used only inside the string primitives.        *)
(***************************************************************************)
EXTENDS Integers, Sequences, FiniteSets, TLC

(***************************************************************************)
(* Bounds of the model.                                                    *)
(***************************************************************************)
\* number of AbortControllers (scans) one session may create
MaxScans == 2
\* number of window.setTimeout calls one session may make
MaxTimers == 3
\* length of the generated part of a text given to a utility function
MaxCoreLen == 2
\* length of a generated search term given to a utility function
MaxTermLen == 2
\* number of clicks on a result whose openFile is outstanding at one time
MaxClicks == 1

(***************************************************************************)
(* JavaScript string primitives used by the source.                        *)
(***************************************************************************)
Min(a, b) == IF a < b THEN a ELSE b
Max(a, b) == IF a > b THEN a ELSE b

\* the code units matched by the regular expression class \s, which are
\* also the code units String.prototype.trim strips
IsWhitespace(c) ==
    \/ c \in {9, 10, 11, 12, 13, 32, 160, 5760, 8232, 8233, 8239, 8287, 12288, 65279}
    \/ (c >= 8192 /\ c <= 8202)

\* The code units on which the model defines String.prototype.toLowerCase:
\* Basic Latin, Latin-1 Supplement and Latin Extended-A (U+0000..U+017F),
\* the combining dot above U+0307, Greek without the capital sigma, whose
\* lower case depends on its position in the word, basic Cyrillic
\* (U+0400..U+045F), the white space outside Latin-1, and the Ohm, Kelvin
\* and Angstrom signs.  On these a string is lower-cased code unit by code
\* unit.  Surrogates, the capital sigma and every other code unit are not
\* modelled: LowerCaseUnit has no value for them.
ModelledUnits ==
    (0..383) \cup {775} \cup (913..929) \cup (932..937) \cup (945..969)
    \cup (1024..1119) \cup {5760, 8232, 8233, 8239, 8287, 12288, 65279}
    \cup (8192..8202) \cup {8486, 8490, 8491}

\* the lower case of a modelled code unit other than U+0130
LowerCaseOf(c) ==
    IF c >= 65 /\ c <= 90 THEN c + 32
    ELSE IF c >= 192 /\ c <= 222 /\ c # 215 THEN c + 32
    ELSE IF (c >= 256 /\ c <= 303) \/ (c >= 306 /\ c <= 311) \/ (c >= 330 /\ c <= 375)
         THEN (IF c % 2 = 0 THEN c + 1 ELSE c)
    ELSE IF (c >= 313 /\ c <= 328) \/ (c >= 377 /\ c <= 382)
         THEN (IF c % 2 = 1 THEN c + 1 ELSE c)
    ELSE IF c = 376 THEN 255
    ELSE IF (c >= 913 /\ c <= 929) \/ (c >= 932 /\ c <= 937) THEN c + 32
    ELSE IF c >= 1024 /\ c <= 1039 THEN c + 80
    ELSE IF c >= 1040 /\ c <= 1071 THEN c + 32
    ELSE IF c = 8486 THEN 969
    ELSE IF c = 8490 THEN 107
    ELSE IF c = 8491 THEN 229
    ELSE c

\* String.prototype.toLowerCase on one code unit.  U+0130 (capital I with
\* dot above) maps to the two code units "i" and U+0307.
LowerCaseUnit(c) ==
    CASE c = 304 -> <<105, 775>>
      [] c \in ModelledUnits \ {304} -> <<LowerCaseOf(c)>>

RECURSIVE ToLowerCase(_)
ToLowerCase(s) ==
    IF s = <<>> THEN <<>>
    ELSE LowerCaseUnit(Head(s)) \o ToLowerCase(Tail(s))

\* s.replace(/\s/g, '_')
ReplaceWhitespace(s) ==
    [i \in 1..Len(s) |-> IF IsWhitespace(s[i]) THEN 95 ELSE s[i]]

\* s.substring(a, b): both indices clamped to [0, length], swapped when a > b
Substring(s, a, b) ==
    LET ca == Max(0, Min(a, Len(s)))
        cb == Max(0, Min(b, Len(s)))
    IN  SubSeq(s, Min(ca, cb) + 1, Max(ca, cb))

\* s.substring(a)
SubstringFrom(s, a) == Substring(s, a, Len(s))

\* haystack.indexOf(needle): 0-based index of the first occurrence, or -1
IndexOf(haystack, needle) ==
    LET hits == {i \in 0..(Len(haystack) - Len(needle)) :
                    SubSeq(haystack, i + 1, i + Len(needle)) = needle}
    IN  IF hits = {} THEN -1
        ELSE CHOOSE i \in hits : \A j \in hits : i <= j

\* haystack.includes(needle)
Includes(haystack, needle) == IndexOf(haystack, needle) # -1

\* s.trim()
RECURSIVE TrimStart(_)
TrimStart(s) ==
    IF s # <<>> /\ IsWhitespace(Head(s)) THEN TrimStart(Tail(s)) ELSE s

RECURSIVE TrimEnd(_)
TrimEnd(s) ==
    IF s # <<>> /\ IsWhitespace(s[Len(s)])
    THEN TrimEnd(SubSeq(s, 1, Len(s) - 1)) ELSE s

Trim(s) == TrimEnd(TrimStart(s))

\* content.split('\n'): the pieces between line feeds; "" splits to [""]
RECURSIVE SplitLines(_)
SplitLines(s) ==
    LET nl == IndexOf(s, <<10>>)
    IN  IF nl = -1 THEN <<s>>
        ELSE <<Substring(s, 0, nl)>> \o SplitLines(SubstringFrom(s, nl + 1))

(***************************************************************************)
(* Utility functions of src/main.ts.                                       *)
(***************************************************************************)
prepareSearchTerm(term) == ReplaceWhitespace(ToLowerCase(term))

\* a variant that compares the text as it is
matchesSearchTermRaw(text, searchTerm) == Includes(text, searchTerm)

matchesSearchTerm(text, searchTerm) ==
    LET cleanedText == prepareSearchTerm(text)
    IN  Includes(cleanedText, searchTerm)

\* the literals '<strong>' and '</strong>'
StrongOpen == <<60, 115, 116, 114, 111, 110, 103, 62>>
StrongClose == <<60, 47, 115, 116, 114, 111, 110, 103, 62>>

\* the number of characters of context kept on each side of the match
SnippetContext == 50

\* a variant that keeps the whole line around the match
createHighlightedSnippetWholeLine(line, rawTerm) ==
    LET index == IndexOf(prepareSearchTerm(line), prepareSearchTerm(rawTerm))
    IN  IF index = -1 THEN line
        ELSE Substring(line, 0, index) \o StrongOpen
             \o Substring(line, index, index + Len(rawTerm)) \o StrongClose
             \o SubstringFrom(line, index + Len(rawTerm))

\* a variant without the return on index -1
createHighlightedSnippetNoFallback(line, rawTerm) ==
    LET index == IndexOf(prepareSearchTerm(line), prepareSearchTerm(rawTerm))
        snippetStart == Max(0, index - SnippetContext)
        snippetEnd == Min(Len(line), index + Len(rawTerm) + SnippetContext)
        snippet == Substring(line, snippetStart, snippetEnd)
        relativeIndex == index - snippetStart
    IN  Substring(snippet, 0, relativeIndex) \o StrongOpen
        \o Substring(snippet, relativeIndex, relativeIndex + Len(rawTerm))
        \o StrongClose \o SubstringFrom(snippet, relativeIndex + Len(rawTerm))

createHighlightedSnippet(line, rawTerm) ==
    LET cleanedLine == prepareSearchTerm(line)
        cleanedSearchTerm == prepareSearchTerm(rawTerm)
        index == IndexOf(cleanedLine, cleanedSearchTerm)
        snippetStart == Max(0, index - SnippetContext)
        snippetEnd == Min(Len(line), index + Len(rawTerm) + SnippetContext)
        snippet == Substring(line, snippetStart, snippetEnd)
        relativeIndex == index - snippetStart
        beforeMatch == Substring(snippet, 0, relativeIndex)
        matchPortion == Substring(snippet, relativeIndex, relativeIndex + Len(rawTerm))
        afterMatch == SubstringFrom(snippet, relativeIndex + Len(rawTerm))
    IN  IF index = -1 THEN line
        ELSE beforeMatch \o StrongOpen \o matchPortion \o StrongClose \o afterMatch

RECURSIVE MatchingLinesOf(_, _, _)
MatchingLinesOf(lines, searchTerm, rawTerm) ==
    IF lines = <<>> THEN <<>>
    ELSE (IF matchesSearchTerm(Head(lines), searchTerm)
          THEN <<createHighlightedSnippet(Head(lines), rawTerm)>>
          ELSE <<>>)
         \o MatchingLinesOf(Tail(lines), searchTerm, rawTerm)

\* a variant that stops at the first matching line
findMatchingLinesFirstOnly(content, rawTerm) ==
    LET all == MatchingLinesOf(SplitLines(content), prepareSearchTerm(rawTerm), rawTerm)
    IN  IF all = <<>> THEN <<>> ELSE <<Head(all)>>

findMatchingLines(content, rawTerm) ==
    LET searchTerm == prepareSearchTerm(rawTerm)
        lines == SplitLines(content)
    IN  MatchingLinesOf(lines, searchTerm, rawTerm)

(***************************************************************************)
(* The vault and the values typed into the input field.                    *)
(***************************************************************************)
\* three markdown files, in the order app.vault.getMarkdownFiles returns them:
\*   name "a", content "b";  name "b", content "b\nb";
\*   name "b", content "a\nb\nA b"
VaultOfThree ==
    << [name |-> <<97>>, content |-> <<98>>],
       [name |-> <<98>>, content |-> <<98, 10, 98>>],
       [name |-> <<98>>, content |-> <<97, 10, 98, 10, 65, 32, 98>>] >>

Vaults == {VaultOfThree, <<>>}

\* "", " ", "a", "ab", " A b"
Inputs == {<<>>, <<32>>, <<97>>, <<97, 98>>, <<32, 65, 32, 98>>}

\* the default search terms of the settings: "", "a"
DefaultTerms == {<<>>, <<97>>}

\* the contents of the files, and the queries a scan can be called with:
\* the values of the field as typed (a direct call) or trimmed (triggerSearch)
Contents == {v[i].content : i \in 1..3, v \in Vaults \ {<<>>}}
RawTerms == Inputs \cup {Trim(v) : v \in Inputs \cup DefaultTerms}

\* findMatchingLines(content, rawTerm), evaluated once for every content and
\* query of a session
MatchingLinesTable ==
    [content \in Contents, rawTerm \in RawTerms |-> findMatchingLines(content, rawTerm)]

VARIABLES
    vault,                    \* app.vault.getMarkdownFiles() and the files' contents
    phase,                    \* "constructed", "open", "closed"; "direct" when
                              \* performLiveSearch is called without a modal
    lastQuery,                \* LiveSearchModal.lastQuery
    inputValue,               \* inputEl.value
    debounceTimer,            \* LiveSearchModal.debounceTimer, 0 for null
    timers,                   \* the window's pending timeouts (ids)
    timerCount,               \* ids handed out by window.setTimeout so far
    currentSearchController,  \* LiveSearchModal.currentSearchController, 0 for null
    aborted,                  \* aborted[c]: signal.aborted of AbortController c
    scans,                    \* the calls of performLiveSearch, in call order
    resultsContainer,         \* the children of the results container
    clicks,                   \* the click handlers suspended in await openFile
    call                      \* a call of one utility function on its own: the
                              \* function, its arguments and what it returned

vars == <<vault, phase, lastQuery, inputValue, debounceTimer, timers, timerCount,
          currentSearchController, aborted, scans, resultsContainer, clicks, call>>

\* no utility function is called on its own
NoCall == [fn |-> "none", text |-> <<>>, term |-> <<>>, returned |-> <<>>, holds |-> FALSE]

(***************************************************************************)
(* Elements of the results container.  A result block remembers the scan   *)
(* whose callback appended it and the index of its file in the vault.      *)
(***************************************************************************)
Paragraph(text) ==
    [tag |-> "p", text |-> text, scan |-> 0, file |-> 0, matchingLines |-> <<>>]

PromptEl == Paragraph("Start typing to search...")
SearchingEl == Paragraph("Searching...")
NoResultsEl == Paragraph("No results found.")

appendResultToUI(container, s, result) ==
    Append(container,
           [tag |-> "div", text |-> "", scan |-> s, file |-> result.file,
            matchingLines |-> result.matchingLines])

(***************************************************************************)
(* AbortController.                                                        *)
(***************************************************************************)
\* a variant that reads the flag of the newest controller instead of the
\* signal the scan captured
NewestSignalAborted(ab, signal) == ab[Len(ab)]

\* signal.aborted, read in the abort flags ab
SignalAborted(ab, signal) == ab[signal]

\* if (this.currentSearchController) this.currentSearchController.abort()
AbortCurrent(ab) ==
    IF currentSearchController # 0
    THEN [ab EXCEPT ![currentSearchController] = TRUE]
    ELSE ab

\* a variant that leaves the current controller running
AbortNothing(ab) == ab

\* the three places that abort the current controller
AbortOnClose(ab) == AbortCurrent(ab)
AbortOnEmptyInput(ab) == AbortCurrent(ab)
AbortOngoingSearch(ab) == AbortCurrent(ab)

(***************************************************************************)
(* performLiveSearch.  A call is a record: its raw term, its signal, the   *)
(* 0-based index of the file being examined, its position (pc), the        *)
(* foundAnyResult flag of the triggerSearch that called it, and the log of *)
(* the calls it made: vault.read(file) and onResult(result).               *)
(*   pc = "reading"   suspended in  await app.vault.read(file)             *)
(*   pc = "returned"  the promise is fulfilled                             *)
(*   pc = "threw"     the promise is rejected                              *)
(* and the position of the caller: "awaiting" while the triggerSearch that *)
(* called it is suspended in  await performLiveSearch(...), "done" when    *)
(* it has run to its end, "none" for a call made without a modal.          *)
(***************************************************************************)
ReadEvent(i) == [call |-> "read", file |-> i, matchingLines |-> <<>>]
ResultEvent(result) ==
    [call |-> "onResult", file |-> result.file, matchingLines |-> result.matchingLines]

\* the head of the loop over files, reached with 0-based index i
LoopHead(scan, i, ab) ==
    IF i >= Len(vault) THEN [scan EXCEPT !.index = i, !.pc = "returned"]
    ELSE IF SignalAborted(ab, scan.signal) THEN [scan EXCEPT !.index = i, !.pc = "returned"]
    ELSE [scan EXCEPT !.index = i, !.pc = "reading",
                      !.log = Append(scan.log, ReadEvent(i + 1))]

\* a variant without the guard on the empty search term
StartScanUnguarded(scan, ab) == LoopHead(scan, 0, ab)

\* the call up to its first suspension
StartScan(scan, ab) ==
    LET searchTerm == prepareSearchTerm(scan.rawTerm)
    IN  IF Len(searchTerm) = 0 THEN [scan EXCEPT !.pc = "returned"]
        ELSE LoopHead(scan, 0, ab)

\* the result the loop body hands to onResult for the file at scan.index,
\* whose content has been read
ResultOf(scan) ==
    [file |-> scan.index + 1,
     matchingLines |-> MatchingLinesTable[vault[scan.index + 1].content, scan.rawTerm]]

\* a variant that reports on a matching file name only
ReportsByNameOnly(scan, ab) ==
    /\ ~SignalAborted(ab, scan.signal)
    /\ matchesSearchTerm(vault[scan.index + 1].name, prepareSearchTerm(scan.rawTerm))

\* whether the loop body calls onResult for the file at scan.index
Reports(scan, ab) ==
    LET searchTerm == prepareSearchTerm(scan.rawTerm)
        fileNameMatches == matchesSearchTerm(vault[scan.index + 1].name, searchTerm)
        matchingLines == ResultOf(scan).matchingLines
    IN  /\ ~SignalAborted(ab, scan.signal)
        /\ (fileNameMatches \/ Len(matchingLines) > 0)

\* the call from the resumption after a read to its next suspension or return
ResumeScan(scan, ab) ==
    IF SignalAborted(ab, scan.signal) THEN [scan EXCEPT !.pc = "returned"]
    ELSE LET logged == IF Reports(scan, ab)
                       THEN [scan EXCEPT !.log = Append(scan.log, ResultEvent(ResultOf(scan)))]
                       ELSE scan
         IN  LoopHead(logged, scan.index + 1, ab)

(***************************************************************************)
(* LiveSearchModal.                                                        *)
(***************************************************************************)
\* a variant that never clears the container before the first result
OnResultContainerKeeping(container, found, s, result, ab) ==
    IF SignalAborted(ab, s) THEN container
    ELSE appendResultToUI(container, s, result)

\* the callback triggerSearch passes as onResult, on container and the flag
\* foundAnyResult: the container and the flag after the call
OnResultContainer(container, found, s, result, ab) ==
    IF SignalAborted(ab, s) THEN container
    ELSE appendResultToUI(IF ~found THEN <<>> ELSE container, s, result)

OnResultFound(found, s, ab) ==
    IF SignalAborted(ab, s) THEN found ELSE TRUE

\* a variant that never writes the notice
AfterSearchSilent(container, found, s, ab) == container

\* a variant that writes the notice without looking at the signal
AfterSearchUnchecked(container, found, s, ab) ==
    IF ~found THEN <<Paragraph("No results found.")>> ELSE container

\* the end of triggerSearch, after await performLiveSearch has returned
AfterSearch(container, found, s, ab) ==
    IF ~SignalAborted(ab, s) /\ ~found THEN <<NoResultsEl>> ELSE container

\* a variant that keeps the previous timeout pending
KeepDebounceTimer == timers

\* if (this.debounceTimer) window.clearTimeout(this.debounceTimer)
ClearDebounceTimer ==
    IF debounceTimer # 0 THEN timers \ {debounceTimer} ELSE timers

\* the triggerSearch that awaits scan can resume: performLiveSearch has
\* returned, and the continuation after the await (234-237) has not run yet
ContinuationPending(scan) ==
    /\ scan.owner = "modal"
    /\ scan.pc = "returned"
    /\ scan.caller = "awaiting"

\* a continuation of triggerSearch is queued as a microtask: it runs before
\* the next event or timeout, but continuations of other promises settled
\* in the same task can run before it
MicrotaskPending == \E s \in 1..Len(scans) : ContinuationPending(scans[s])

Init ==
    /\ vault \in Vaults
    /\ phase = "constructed"
    /\ lastQuery \in DefaultTerms
    /\ inputValue = <<>>
    /\ debounceTimer = 0
    /\ timers = {}
    /\ timerCount = 0
    /\ currentSearchController = 0
    /\ aborted = <<>>
    /\ scans = <<>>
    /\ resultsContainer = <<>>
    /\ clicks = 0
    /\ call = NoCall

\* this.debounceTimer = window.setTimeout(() => this.triggerSearch(), 200)
SetDebounceTimer(pending) ==
    /\ timerCount < MaxTimers
    /\ timerCount' = timerCount + 1
    /\ debounceTimer' = timerCount + 1
    /\ timers' = pending \cup {timerCount + 1}

onOpen ==
    /\ phase = "constructed"
    /\ phase' = "open"
    /\ inputValue' = lastQuery
    /\ resultsContainer' = <<PromptEl>>
    /\ IF Trim(lastQuery) # <<>>
       THEN SetDebounceTimer(ClearDebounceTimer)
       ELSE UNCHANGED <<debounceTimer, timers, timerCount>>
    /\ UNCHANGED <<call, clicks, vault, lastQuery, currentSearchController, aborted, scans>>

\* the user closes the modal
onClose ==
    /\ phase = "open"
    /\ ~MicrotaskPending
    /\ phase' = "closed"
    /\ aborted' = AbortOnClose(aborted)
    /\ UNCHANGED <<call, clicks, vault, lastQuery, inputValue, debounceTimer, timers, timerCount,
                   currentSearchController, scans, resultsContainer>>

\* a variant of the input event that aborts the current controller for
\* every value, not only for an empty one
onInputChangedAborting(v) ==
    /\ phase = "open"
    /\ ~MicrotaskPending
    /\ inputValue' = v
    /\ aborted' = AbortCurrent(aborted)
    /\ IF Trim(v) = <<>>
       THEN /\ timers' = ClearDebounceTimer
            /\ resultsContainer' = <<PromptEl>>
            /\ currentSearchController' = 0
            /\ UNCHANGED <<debounceTimer, timerCount>>
       ELSE /\ SetDebounceTimer(ClearDebounceTimer)
            /\ UNCHANGED <<resultsContainer, currentSearchController>>
    /\ UNCHANGED <<call, clicks, vault, phase, lastQuery, scans>>

\* the input event: the user has changed the field's value to v
onInputChanged(v) ==
    /\ phase = "open"
    /\ ~MicrotaskPending
    /\ inputValue' = v
    /\ IF Trim(v) = <<>>
       THEN /\ timers' = ClearDebounceTimer
            /\ resultsContainer' = <<PromptEl>>
            /\ aborted' = AbortOnEmptyInput(aborted)
            /\ currentSearchController' = 0
            /\ UNCHANGED <<debounceTimer, timerCount>>
       ELSE /\ SetDebounceTimer(ClearDebounceTimer)
            /\ UNCHANGED <<resultsContainer, aborted, currentSearchController>>
    /\ UNCHANGED <<call, clicks, vault, phase, lastQuery, scans>>

\* a pending timeout t fires and runs triggerSearch up to its suspension in
\* await performLiveSearch(...), which yields even when the call has returned
triggerSearch(t) ==
    /\ t \in timers
    /\ ~MicrotaskPending
    /\ timers' = timers \ {t}
    /\ LET query == Trim(inputValue)
           signal == Len(aborted) + 1
           ab == Append(AbortOngoingSearch(aborted), FALSE)
           called == [rawTerm |-> query, signal |-> signal, index |-> 0,
                      pc |-> "called", foundAnyResult |-> FALSE,
                      owner |-> "modal", caller |-> "awaiting", log |-> <<>>]
           scan == StartScan(called, ab)
       IN  IF query = <<>>
           THEN UNCHANGED <<aborted, currentSearchController, scans, resultsContainer>>
           ELSE /\ Len(scans) < MaxScans
                /\ aborted' = ab
                /\ currentSearchController' = signal
                /\ scans' = Append(scans, scan)
                /\ resultsContainer' = <<SearchingEl>>
    /\ UNCHANGED <<call, clicks, vault, phase, lastQuery, inputValue, debounceTimer, timerCount>>

\* the read scan s awaits is fulfilled: the scan runs to its next read or to
\* its return
ReadFulfilled(s) ==
    /\ s \in 1..Len(scans)
    /\ scans[s].pc = "reading"
    /\ LET scan == scans[s]
           reports == Reports(scan, aborted)
           found == IF reports /\ scan.owner = "modal"
                    THEN OnResultFound(scan.foundAnyResult, scan.signal, aborted)
                    ELSE scan.foundAnyResult
           shown == IF reports /\ scan.owner = "modal"
                    THEN OnResultContainer(resultsContainer, scan.foundAnyResult,
                                           scan.signal, ResultOf(scan), aborted)
                    ELSE resultsContainer
           next == [ResumeScan(scan, aborted) EXCEPT !.foundAnyResult = found]
       IN  /\ scans' = [scans EXCEPT ![s] = next]
           /\ resultsContainer' = shown
    /\ UNCHANGED <<call, clicks, vault, phase, lastQuery, inputValue, debounceTimer, timers,
                   timerCount, currentSearchController, aborted>>

\* the read scan s awaits is rejected: the await throws, nothing catches it,
\* and the promises of performLiveSearch and of triggerSearch are rejected
ReadRejected(s) ==
    /\ s \in 1..Len(scans)
    /\ scans[s].pc = "reading"
    /\ scans' = [scans EXCEPT ![s].pc = "threw"]
    /\ UNCHANGED <<call, clicks, vault, phase, lastQuery, inputValue, debounceTimer, timers,
                   timerCount, currentSearchController, aborted, resultsContainer>>

\* the triggerSearch that awaited scan s resumes after the await and runs to
\* its end
triggerSearchResumes(s) ==
    /\ s \in 1..Len(scans)
    /\ ContinuationPending(scans[s])
    /\ scans' = [scans EXCEPT ![s].caller = "done"]
    /\ resultsContainer' =
          AfterSearch(resultsContainer, scans[s].foundAnyResult, scans[s].signal, aborted)
    /\ UNCHANGED <<call, clicks, vault, phase, lastQuery, inputValue, debounceTimer, timers,
                   timerCount, currentSearchController, aborted>>

\* the user clicks on a result block on display: the handler calls openFile
\* and is suspended in the await
onResultClick(i) ==
    /\ phase = "open"
    /\ ~MicrotaskPending
    /\ clicks < MaxClicks
    /\ i \in 1..Len(resultsContainer)
    /\ resultsContainer[i].tag = "div"
    /\ clicks' = clicks + 1
    /\ UNCHANGED <<call, vault, phase, lastQuery, inputValue, debounceTimer, timers,
                   timerCount, currentSearchController, aborted, scans, resultsContainer>>

\* openFile is fulfilled: the click handler resumes and calls this.close(),
\* which calls onClose, whether the modal is still open or not
openFileFulfilled ==
    /\ clicks > 0
    /\ clicks' = clicks - 1
    /\ phase' = "closed"
    /\ aborted' = AbortOnClose(aborted)
    /\ UNCHANGED <<call, vault, lastQuery, inputValue, debounceTimer, timers, timerCount,
                   currentSearchController, scans, resultsContainer>>

\* openFile is rejected: the await throws and the handler never calls close
openFileRejected ==
    /\ clicks > 0
    /\ clicks' = clicks - 1
    /\ UNCHANGED <<call, vault, phase, lastQuery, inputValue, debounceTimer, timers,
                   timerCount, currentSearchController, aborted, scans, resultsContainer>>

(***************************************************************************)
(* performLiveSearch called directly, without a modal: any raw term, a     *)
(* signal that may already be aborted, a callback that only records the    *)
(* result (the call's log), and a caller that may abort at any time.       *)
(***************************************************************************)
InitScan ==
    /\ vault \in Vaults
    /\ phase = "direct"
    /\ lastQuery = <<>>
    /\ inputValue = <<>>
    /\ debounceTimer = 0
    /\ timers = {}
    /\ timerCount = 0
    /\ currentSearchController = 0
    /\ aborted = <<>>
    /\ scans = <<>>
    /\ resultsContainer = <<>>
    /\ clicks = 0
    /\ call = NoCall

CallPerformLiveSearch(rawTerm, isAborted) ==
    /\ phase = "direct"
    /\ Len(scans) < MaxScans
    /\ LET signal == Len(aborted) + 1
           ab == Append(aborted, isAborted)
           called == [rawTerm |-> rawTerm, signal |-> signal, index |-> 0,
                      pc |-> "called", foundAnyResult |-> FALSE,
                      owner |-> "direct", caller |-> "none", log |-> <<>>]
       IN  /\ aborted' = ab
           /\ scans' = Append(scans, StartScan(called, ab))
    /\ UNCHANGED <<call, clicks, vault, phase, lastQuery, inputValue, debounceTimer, timers,
                   timerCount, currentSearchController, resultsContainer>>

\* controller.abort() by the caller
CallerAborts(c) ==
    /\ phase = "direct"
    /\ c \in 1..Len(aborted)
    /\ ~aborted[c]
    /\ aborted' = [aborted EXCEPT ![c] = TRUE]
    /\ UNCHANGED <<call, clicks, vault, phase, lastQuery, inputValue, debounceTimer, timers,
                   timerCount, currentSearchController, scans, resultsContainer>>

NextScan ==
    \/ \E rawTerm \in Inputs, isAborted \in BOOLEAN :
          CallPerformLiveSearch(rawTerm, isAborted)
    \/ \E c \in 1..MaxScans : CallerAborts(c)
    \/ \E s \in 1..MaxScans : ReadFulfilled(s)
    \/ \E s \in 1..MaxScans : ReadRejected(s)

SpecScan == InitScan /\ [][NextScan]_vars

(***************************************************************************)
(* The utility functions called on their own.  The text is a generated     *)
(* core between two runs of a padding character, so that a match can lie   *)
(* nearer to or farther from either end than the snippet context; the      *)
(* alphabet has a lower-case and an upper-case letter, a space and U+0130. *)
(***************************************************************************)
Strings(alphabet, n) == UNION {[1..k -> alphabet] : k \in 0..n}

Pad(c, n) == [i \in 1..n |-> c]

CoreAlphabet == {97, 65, 32, 304}
TermAlphabet == {97, 65, 32, 304}
\* padding characters: "x" and U+0130
PadCharacters == {120, 304}
PadLengths == {0, 1, 52}

\* "Hello World" with "hello_world", "HELLO" with "hello",
\* "The cat sat" with "cat sat"
ExampleArguments ==
    { <<<<72, 101, 108, 108, 111, 32, 87, 111, 114, 108, 100>>,
        <<104, 101, 108, 108, 111, 95, 119, 111, 114, 108, 100>>>>,
      <<<<72, 69, 76, 76, 79>>, <<104, 101, 108, 108, 111>>>>,
      <<<<84, 104, 101, 32, 99, 97, 116, 32, 115, 97, 116>>,
        <<99, 97, 116, 32, 115, 97, 116>>>> }

GeneratedArguments ==
    { <<Pad(c, l) \o core \o Pad(c, r), term>> :
         c \in PadCharacters, l \in PadLengths, r \in PadLengths,
         core \in Strings(CoreAlphabet, MaxCoreLen),
         term \in Strings(TermAlphabet, MaxTermLen) }

InitPure ==
    /\ vault = <<>>
    /\ phase = "pure"
    /\ lastQuery = <<>>
    /\ inputValue = <<>>
    /\ debounceTimer = 0
    /\ timers = {}
    /\ timerCount = 0
    /\ currentSearchController = 0
    /\ aborted = <<>>
    /\ scans = <<>>
    /\ resultsContainer = <<>>
    /\ clicks = 0
    /\ \E args \in GeneratedArguments \cup ExampleArguments :
          call = [NoCall EXCEPT !.text = args[1], !.term = args[2]]

CallPure(fn, returned, holds) ==
    /\ phase = "pure"
    /\ call.fn = "none"
    /\ call' = [call EXCEPT !.fn = fn, !.returned = returned, !.holds = holds]
    /\ UNCHANGED <<vault, phase, lastQuery, inputValue, debounceTimer, timers,
                   timerCount, currentSearchController, aborted, scans,
                   resultsContainer, clicks>>

CallPrepareSearchTerm ==
    CallPure("prepareSearchTerm", prepareSearchTerm(call.text), FALSE)

CallMatchesSearchTerm ==
    CallPure("matchesSearchTerm", <<>>, matchesSearchTerm(call.text, call.term))

CallCreateHighlightedSnippet ==
    CallPure("createHighlightedSnippet",
             createHighlightedSnippet(call.text, call.term), FALSE)

NextPure ==
    \/ CallPrepareSearchTerm
    \/ CallMatchesSearchTerm
    \/ CallCreateHighlightedSnippet

SpecPure == InitPure /\ [][NextPure]_vars

Next ==
    \/ onOpen
    \/ onClose
    \/ \E v \in Inputs : onInputChanged(v)
    \/ \E t \in 1..MaxTimers : triggerSearch(t)
    \/ \E s \in 1..MaxScans : ReadFulfilled(s)
    \/ \E s \in 1..MaxScans : ReadRejected(s)
    \/ \E s \in 1..MaxScans : triggerSearchResumes(s)
    \/ \E i \in 1..Len(VaultOfThree) : onResultClick(i)
    \/ openFileFulfilled
    \/ openFileRejected

Spec == Init /\ [][Next]_vars

(***************************************************************************)
(* The session when every read is fulfilled and no result is clicked: a    *)
(* pending timeout fires in the end (the event loop runs its timers), and  *)
(* so do the continuation of every read and the continuation of every      *)
(* triggerSearch whose scan has returned.                                  *)
(***************************************************************************)
NextLive ==
    \/ onOpen
    \/ onClose
    \/ \E v \in Inputs : onInputChanged(v)
    \/ \E t \in 1..MaxTimers : triggerSearch(t)
    \/ \E s \in 1..MaxScans : ReadFulfilled(s)
    \/ \E s \in 1..MaxScans : triggerSearchResumes(s)

Fairness ==
    /\ \A t \in 1..MaxTimers : WF_vars(triggerSearch(t))
    /\ \A s \in 1..MaxScans : WF_vars(ReadFulfilled(s))
    /\ \A s \in 1..MaxScans : WF_vars(triggerSearchResumes(s))

SpecLive == Init /\ [][NextLive]_vars /\ Fairness
(***************************************************************************)
(* Observers used by the properties.                                       *)
(***************************************************************************)
\* the number of result blocks in container that scan s appended
RECURSIVE ResultCount(_, _)
ResultCount(container, s) ==
    IF container = <<>> THEN 0
    ELSE (IF Head(container).tag = "div" /\ Head(container).scan = s THEN 1 ELSE 0)
         + ResultCount(Tail(container), s)

\* the calls of log that are onResult calls, in order
RECURSIVE OnResultCalls(_)
OnResultCalls(log) ==
    IF log = <<>> THEN <<>>
    ELSE (IF Head(log).call = "onResult" THEN <<Head(log)>> ELSE <<>>)
         \o OnResultCalls(Tail(log))

\* a scan that has started and not finished
Running(scan) == scan.pc = "reading"

\* the triggerSearch that called scan s runs to its end in the step
TriggerSearchEnds(s) ==
    /\ s \in 1..Len(scans)
    /\ scans[s].caller = "awaiting"
    /\ scans'[s].caller = "done"

\* scan s has stopped and so has the triggerSearch that called it
Stopped(scan) ==
    \/ scan.pc = "threw"
    \/ scan.pc = "returned" /\ scan.caller = "done"

(***************************************************************************)
(* C1  Cancellation isolation across scans: once the token of a scan is    *)
(* aborted (by a superseding triggerSearch, by an empty input or by close),*)
(* and once a later scan has started, no step appends a result block of    *)
(* that scan to the results container.                                     *)
(***************************************************************************)
C1_CancellationIsolation ==
    [][\A s \in 1..Len(scans') :
          (aborted'[s] \/ s < Len(scans'))
          => ResultCount(resultsContainer', s) <= ResultCount(resultsContainer, s)]_vars

\* scan 1 was superseded while reading a file that qualifies, its read was
\* then fulfilled and discarded, and scan 2 has put its own result on display
C1_Witness ==
    /\ Len(scans) = 2
    /\ aborted[1] /\ ~aborted[2]
    /\ scans[1].pc = "returned" /\ scans[1].index < Len(vault)
    /\ Reports(scans[1], [c \in 1..2 |-> FALSE])
    /\ ResultCount(resultsContainer, 2) > 0
    /\ ResultCount(resultsContainer, 1) = 0

(***************************************************************************)
(* C2  At most one active scan: at most one running scan has a token that  *)
(* is not aborted, and the step that starts a scan aborts the token of     *)
(* every scan started before it and gives the new scan a fresh token.      *)
(***************************************************************************)
ActiveScans == {s \in 1..Len(scans) : Running(scans[s]) /\ ~aborted[scans[s].signal]}

C2_AtMostOneActiveScan ==
    [][/\ Cardinality(ActiveScans') <= 1
       /\ Len(scans') > Len(scans)
          => /\ \A s \in 1..Len(scans) : aborted'[scans[s].signal]
             /\ scans'[Len(scans')].signal \notin {scans[s].signal : s \in 1..Len(scans)}
             /\ ~aborted'[scans'[Len(scans')].signal]]_vars

\* two scans are running at once: the superseded one, aborted, and the new one
C2_Witness ==
    /\ Len(scans) = 2
    /\ Running(scans[1]) /\ Running(scans[2])
    /\ aborted[1] /\ ~aborted[2]

(***************************************************************************)
(* C3  Debounce coalescing: at most one debounce timer is pending; a scan  *)
(* starts only in a step in which the one pending timer fires, that step   *)
(* starts exactly one scan, and its query is the trimmed value of the last *)
(* input change; an input change itself starts no scan.                    *)
(***************************************************************************)
C3_DebounceCoalescing ==
    [][/\ Cardinality(timers') <= 1
       /\ Len(scans') <= Len(scans) + 1
       /\ Len(scans') = Len(scans) + 1
          => /\ timers = {debounceTimer}
             /\ timers' = {}
             /\ inputValue' = inputValue
             /\ scans'[Len(scans')].rawTerm = Trim(inputValue)
       /\ (timers # {} /\ timers' = {} /\ Trim(inputValue') # <<>>)
          => Len(scans') = Len(scans) + 1
       /\ timerCount' # timerCount => Len(scans') = Len(scans)]_vars

\* three input changes, each before the previous timer fired, and one scan,
\* whose query is the last value typed
C3_Witness ==
    /\ lastQuery = <<>>
    /\ timerCount = 3
    /\ timers = {}
    /\ Len(scans) = 1
    /\ scans[1].rawTerm = Trim(inputValue)
    /\ scans[1].rawTerm = <<65, 32, 98>>

(***************************************************************************)
(* C4  Read failure is a skip, not an abort: when a scan and the           *)
(* triggerSearch that called it have stopped without the scan being        *)
(* cancelled, the scan has examined every document, and the display is     *)
(* then not the "Searching..." indicator.                                  *)
(***************************************************************************)
C4_ReadFailureIsSkip ==
    \A s \in 1..Len(scans) :
        (Stopped(scans[s]) /\ ~aborted[scans[s].signal])
        => /\ scans[s].index = Len(vault)
           /\ resultsContainer # <<SearchingEl>>

(***************************************************************************)
(* C5  Closing cancels every in-flight scan: the step that closes the      *)
(* modal leaves every scan started so far aborted or finished, and a scan  *)
(* that is aborted or finished stays so and appends no result block.       *)
(***************************************************************************)
Settled(ab, scan) == ab[scan.signal] \/ ~Running(scan)

C5_CloseCancelsScan ==
    [][/\ (phase = "open" /\ phase' = "closed")
          => \A s \in 1..Len(scans') : Settled(aborted', scans'[s])
       /\ \A s \in 1..Len(scans) :
             Settled(aborted, scans[s])
             => /\ Settled(aborted', scans'[s])
                /\ ResultCount(resultsContainer', s)
                      <= ResultCount(resultsContainer, s)]_vars

\* the modal was closed while its current scan was reading a file that
\* qualifies; the read was then fulfilled and the scan returned early
C5_Witness ==
    /\ phase = "closed"
    /\ Len(scans) >= 1
    /\ currentSearchController = Len(scans)
    /\ aborted[currentSearchController]
    /\ scans[Len(scans)].pc = "returned"
    /\ scans[Len(scans)].index < Len(vault)
    /\ Reports(scans[Len(scans)], [c \in 1..Len(aborted) |-> FALSE])
    /\ OnResultCalls(scans[Len(scans)].log) = <<>>

(***************************************************************************)
(* C6  Empty input returns to Idle: whenever the trimmed input is empty    *)
(* after a step, no debounce timer is pending, the token of every running  *)
(* scan is aborted, an open modal shows only the prompt, and no scan       *)
(* starts while the trimmed input stays empty.                             *)
(***************************************************************************)
C6_EmptyInputIsIdle ==
    [][Trim(inputValue') = <<>>
       => /\ timers' = {}
          /\ \A s \in 1..Len(scans') :
                Running(scans'[s]) => aborted'[scans'[s].signal]
          /\ phase' = "open" => resultsContainer' = <<PromptEl>>
          /\ Trim(inputValue) = <<>> => Len(scans') = Len(scans)]_vars

\* the input was cleared while a scan was reading: the scan is still
\* suspended, its token is aborted, the controller is forgotten
C6_Witness ==
    /\ phase = "open"
    /\ Trim(inputValue) = <<>>
    /\ inputValue # <<>>
    /\ currentSearchController = 0
    /\ \E s \in 1..Len(scans) : Running(scans[s]) /\ aborted[scans[s].signal]
    /\ resultsContainer = <<PromptEl>>

(***************************************************************************)
(* C7  Displaying and Empty come from a completed, non-cancelled scan:     *)
(* the "No results found." notice is written only by the step that ends    *)
(* the triggerSearch of a scan that has returned after the last document   *)
(* with its token not aborted and no onResult call made; when that step    *)
(* finds the token not aborted the container holds the notice if the scan  *)
(* made no onResult call and otherwise exactly one result block per        *)
(* onResult call, in call order.                                           *)
(***************************************************************************)
BlocksOf(s, calls) ==
    [i \in 1..Len(calls) |->
        [tag |-> "div", text |-> "", scan |-> s, file |-> calls[i].file,
         matchingLines |-> calls[i].matchingLines]]

C7_DisplayingAndEmpty ==
    [][/\ (resultsContainer' = <<NoResultsEl>> /\ resultsContainer # <<NoResultsEl>>)
          => \E s \in 1..Len(scans) :
                /\ TriggerSearchEnds(s)
                /\ ~aborted'[scans'[s].signal]
                /\ scans'[s].pc = "returned"
                /\ scans'[s].index = Len(vault)
                /\ OnResultCalls(scans'[s].log) = <<>>
       /\ \A s \in 1..Len(scans) :
             (TriggerSearchEnds(s) /\ ~aborted'[scans'[s].signal])
             => resultsContainer' =
                   IF OnResultCalls(scans'[s].log) = <<>>
                   THEN <<NoResultsEl>>
                   ELSE BlocksOf(s, OnResultCalls(scans'[s].log))]_vars

\* a cancelled scan returned without writing, and the scan that superseded
\* it examined three documents, found nothing and wrote the notice
C7_Witness ==
    /\ Len(scans) = 2
    /\ Len(vault) = 3
    /\ aborted[1] /\ scans[1].pc = "returned"
    /\ ~aborted[2] /\ scans[2].pc = "returned" /\ scans[2].index = 3
    /\ scans[2].caller = "done"
    /\ resultsContainer = <<NoResultsEl>>

(***************************************************************************)
(* C8  Streaming order and completeness within one scan: a scan whose      *)
(* token is not aborted and whose reads are fulfilled reads the documents  *)
(* in enumeration order and calls onResult exactly once for each document  *)
(* whose name or one of whose lines matches, for no other document, and    *)
(* before it starts the read of the next document.                         *)
(***************************************************************************)
Qualifies(i, rawTerm) ==
    LET searchTerm == prepareSearchTerm(rawTerm)
        lines == SplitLines(vault[i].content)
    IN  \/ matchesSearchTerm(vault[i].name, searchTerm)
        \/ \E k \in 1..Len(lines) : matchesSearchTerm(lines[k], searchTerm)

\* the calls a scan for rawTerm has made when it is done with the first n files
RECURSIVE ExpectedCalls(_, _)
ExpectedCalls(rawTerm, n) ==
    IF n = 0 THEN <<>>
    ELSE ExpectedCalls(rawTerm, n - 1)
         \o <<[call |-> "read", file |-> n]>>
         \o (IF Qualifies(n, rawTerm) THEN <<[call |-> "onResult", file |-> n]>> ELSE <<>>)

CallsOf(log) == [i \in 1..Len(log) |-> [call |-> log[i].call, file |-> log[i].file]]

C8_StreamingOrder ==
    \A s \in 1..Len(scans) :
        (~aborted[scans[s].signal] /\ Len(prepareSearchTerm(scans[s].rawTerm)) > 0)
        => /\ scans[s].pc = "reading"
              => CallsOf(scans[s].log) =
                    ExpectedCalls(scans[s].rawTerm, scans[s].index)
                    \o <<[call |-> "read", file |-> scans[s].index + 1]>>
           /\ scans[s].pc = "returned"
              => CallsOf(scans[s].log) = ExpectedCalls(scans[s].rawTerm, Len(vault))

\* a scan for "a" over the three files has returned: it reported the first
\* file (name) and the third (line "A b") and passed over the second
C8_Witness ==
    \E s \in 1..Len(scans) :
        /\ ~aborted[scans[s].signal]
        /\ scans[s].rawTerm = <<97>>
        /\ scans[s].pc = "returned"
        /\ CallsOf(scans[s].log) =
              << [call |-> "read", file |-> 1], [call |-> "onResult", file |-> 1],
                 [call |-> "read", file |-> 2],
                 [call |-> "read", file |-> 3], [call |-> "onResult", file |-> 3] >>

(***************************************************************************)
(* C9  Cooperative cancellation checkpoints: once the token of a scan is   *)
(* aborted the scan starts no further read, calls onResult for no further  *)
(* document, and finishes without raising an error.                        *)
(***************************************************************************)
C9_CancelledScanFinishesNormally ==
    [][\A s \in 1..Len(scans) :
          aborted[scans[s].signal]
          => /\ scans'[s].log = scans[s].log
             /\ scans'[s].pc # "threw"]_vars

(***************************************************************************)
(* C10  Empty-query guard: a scan whose normalized query is the empty      *)
(* string has returned without reading a document or calling onResult.     *)
(***************************************************************************)
C10_EmptyQueryGuard ==
    \A s \in 1..Len(scans) :
        Len(prepareSearchTerm(scans[s].rawTerm)) = 0
        => scans[s].pc = "returned" /\ scans[s].log = <<>>

\* a scan with the empty raw term and a live token over the three files
C10_Witness ==
    \E s \in 1..Len(scans) :
        /\ scans[s].rawTerm = <<>>
        /\ ~aborted[scans[s].signal]
        /\ Len(vault) = 3
        /\ scans[s].pc = "returned"

(***************************************************************************)
(* Observers of a snippet: the parts before, between and after the two     *)
(* markers, and the excerpt, which is the snippet without the markers.     *)
(***************************************************************************)
HasMarkers(snippet) ==
    /\ IndexOf(snippet, StrongOpen) # -1
    /\ IndexOf(snippet, StrongClose) # -1
BeforeMarker(snippet) == Substring(snippet, 0, IndexOf(snippet, StrongOpen))
Marked(snippet) ==
    Substring(snippet, IndexOf(snippet, StrongOpen) + Len(StrongOpen),
              IndexOf(snippet, StrongClose))
AfterMarker(snippet) ==
    SubstringFrom(snippet, IndexOf(snippet, StrongClose) + Len(StrongClose))
Excerpt(snippet) == BeforeMarker(snippet) \o Marked(snippet) \o AfterMarker(snippet)

\* the normalized term occurs in the normalized line
NormalizedMatch(line, rawTerm) ==
    Includes(prepareSearchTerm(line), prepareSearchTerm(rawTerm))

\* piece is the part of line that starts at 0-based index lo
OccursAt(piece, line, lo) ==
    /\ lo >= 0
    /\ lo + Len(piece) <= Len(line)
    /\ SubSeq(line, lo + 1, lo + Len(piece)) = piece

(***************************************************************************)
(* C11  Normalization preserves length: prepareSearchTerm(s) is as long as *)
(* s, and its character at each position is "_" where s has a whitespace   *)
(* character and the lower-cased character of s otherwise.                 *)
(***************************************************************************)
C11_NormalizationPreservesLength ==
    call.fn = "prepareSearchTerm"
    => /\ Len(call.returned) = Len(call.text)
       /\ \A i \in 1..Len(call.text) :
             <<call.returned[i]>> =
                IF IsWhitespace(call.text[i]) THEN <<95>>
                ELSE LowerCaseUnit(call.text[i])

(***************************************************************************)
(* C12  Snippet marks the exact raw match: when the normalized forms       *)
(* match, the snippet is before + marker(matched) + after, where matched   *)
(* is the part of the raw line of the raw term's length at the first match *)
(* index of the normalized line, normalize(matched) = normalize(term), and *)
(* before + matched + after is a contiguous part of the raw line.          *)
(***************************************************************************)
C12_SnippetMarksRawMatch ==
    (call.fn = "createHighlightedSnippet" /\ NormalizedMatch(call.text, call.term))
    => LET index == IndexOf(prepareSearchTerm(call.text), prepareSearchTerm(call.term))
           matched == Marked(call.returned)
       IN  /\ HasMarkers(call.returned)
           /\ Len(matched) = Len(call.term)
           /\ OccursAt(matched, call.text, index)
           /\ prepareSearchTerm(matched) = prepareSearchTerm(call.term)
           /\ OccursAt(Excerpt(call.returned), call.text,
                       index - Len(BeforeMarker(call.returned)))

(***************************************************************************)
(* C13  Snippet boundedness: when the normalized forms match, the excerpt  *)
(* has at most 100 + length(rawTerm) characters, at most 50 of them before *)
(* the marked span and at most 50 after it, and it is a part of the raw    *)
(* line that starts and ends within [0, length(line)].                     *)
(***************************************************************************)
C13_SnippetBounded ==
    (call.fn = "createHighlightedSnippet" /\ NormalizedMatch(call.text, call.term))
    => /\ HasMarkers(call.returned)
       /\ Len(Excerpt(call.returned)) <= 2 * SnippetContext + Len(call.term)
       /\ Len(BeforeMarker(call.returned)) <= SnippetContext
       /\ Len(AfterMarker(call.returned)) <= SnippetContext
       /\ \E lo \in 0..Len(call.text) :
             OccursAt(Excerpt(call.returned), call.text, lo)

\* a match far from both ends of the line: the excerpt has 50 characters on
\* each side of a marked span of two and leaves out part of the line
C13_Witness ==
    /\ call.fn = "createHighlightedSnippet"
    /\ NormalizedMatch(call.text, call.term)
    /\ Len(call.term) = 2
    /\ Len(Marked(call.returned)) = 2
    /\ Len(BeforeMarker(call.returned)) = SnippetContext
    /\ Len(AfterMarker(call.returned)) = SnippetContext
    /\ Len(call.text) > Len(Excerpt(call.returned)) + 2

(***************************************************************************)
(* C15  Case- and whitespace-insensitive matching: matchesSearchTerm(text, *)
(* needle) is true exactly when needle is a part of normalize(text);       *)
(* "Hello World" matches "hello_world" and "HELLO" matches "hello".        *)
(***************************************************************************)
C15_MatchesIffSubstring ==
    call.fn = "matchesSearchTerm"
    => LET cleaned == prepareSearchTerm(call.text)
       IN  /\ call.holds <=> \E lo \in 0..Len(cleaned) : OccursAt(call.term, cleaned, lo)
           /\ (/\ call.text = <<72, 101, 108, 108, 111, 32, 87, 111, 114, 108, 100>>
               /\ call.term = <<104, 101, 108, 108, 111, 95, 119, 111, 114, 108, 100>>)
              => call.holds
           /\ (/\ call.text = <<72, 69, 76, 76, 79>>
               /\ call.term = <<104, 101, 108, 108, 111>>)
              => call.holds

\* matchesSearchTerm("Hello World", "hello_world") has returned true
C15_Witness ==
    /\ call.fn = "matchesSearchTerm"
    /\ call.text = <<72, 101, 108, 108, 111, 32, 87, 111, 114, 108, 100>>
    /\ call.term = <<104, 101, 108, 108, 111, 95, 119, 111, 114, 108, 100>>
    /\ call.holds

(***************************************************************************)
(* C17  Snippet fallback on no match: when the normalized term does not    *)
(* occur in the normalized line, createHighlightedSnippet returns the raw  *)
(* line unchanged, without a marker.                                       *)
(***************************************************************************)
C17_SnippetFallback ==
    (call.fn = "createHighlightedSnippet" /\ ~NormalizedMatch(call.text, call.term))
    => /\ call.returned = call.text
       /\ IndexOf(call.returned, StrongOpen) = -1
       /\ IndexOf(call.returned, StrongClose) = -1

\* createHighlightedSnippet was called with a long line and a term that does
\* not occur in it
C17_Witness ==
    /\ call.fn = "createHighlightedSnippet"
    /\ ~NormalizedMatch(call.text, call.term)
    /\ Len(call.term) > 0
    /\ Len(call.text) > 2 * SnippetContext
    /\ call.returned = call.text

(***************************************************************************)
(* C14  Filename-only match: for every document a scan is done with, the   *)
(* scan has called onResult once if the name or a line matches and not at  *)
(* all otherwise; the record holds one snippet per matching line, in line  *)
(* order, and so no snippet when only the name matches.                    *)
(***************************************************************************)
MatchingLineNumbers(i, rawTerm) ==
    LET lines == SplitLines(vault[i].content)
    IN  {k \in 1..Len(lines) : matchesSearchTerm(lines[k], prepareSearchTerm(rawTerm))}

\* matchingLines holds the snippets of the matching lines of file i, in order
SnippetsInLineOrder(matchingLines, i, rawTerm) ==
    LET lines == SplitLines(vault[i].content)
        numbers == MatchingLineNumbers(i, rawTerm)
    IN  /\ Len(matchingLines) = Cardinality(numbers)
        /\ \A k \in numbers :
              matchingLines[Cardinality({j \in numbers : j <= k})]
                 = createHighlightedSnippet(lines[k], rawTerm)

C14_FilenameOnlyMatch ==
    \A s \in 1..Len(scans) :
        \A i \in 1..scans[s].index :
            LET rawTerm == scans[s].rawTerm
                records == {k \in 1..Len(scans[s].log) :
                               /\ scans[s].log[k].call = "onResult"
                               /\ scans[s].log[k].file = i}
                nameMatches == matchesSearchTerm(vault[i].name, prepareSearchTerm(rawTerm))
            IN  IF nameMatches \/ MatchingLineNumbers(i, rawTerm) # {}
                THEN /\ Cardinality(records) = 1
                     /\ \A k \in records :
                           SnippetsInLineOrder(scans[s].log[k].matchingLines, i, rawTerm)
                ELSE records = {}

\* a scan for "a" has reported the first file, whose name alone matches, with
\* no snippet, and the third file, whose name does not match, with the
\* snippets of its first and third line: "<strong>a</strong>" and
\* "<strong>A</strong> b"
C14_Witness ==
    \E s \in 1..Len(scans) :
        /\ scans[s].rawTerm = <<97>>
        /\ scans[s].pc = "returned"
        /\ OnResultCalls(scans[s].log) =
              << [call |-> "onResult", file |-> 1, matchingLines |-> <<>>],
                 [call |-> "onResult", file |-> 3,
                  matchingLines |->
                     << StrongOpen \o <<97>> \o StrongClose,
                        StrongOpen \o <<65>> \o StrongClose \o <<32, 98>> >>] >>

(***************************************************************************)
(* C16  Scan progress: from a state of the open modal in which a debounce  *)
(* timer is pending, unless a later input change or a close occurs, the    *)
(* timer fires, exactly one more scan starts, and it returns with its      *)
(* token not aborted and the container holding its results (Displaying)    *)
(* or the "No results found." notice (Empty), not "Searching...".          *)
(***************************************************************************)
DisplayingOrEmpty ==
    /\ Len(scans) > 0
    /\ timers = {}
    /\ LET scan == scans[Len(scans)]
       IN  /\ scan.pc = "returned"
           /\ scan.caller = "done"
           /\ ~aborted[scan.signal]
           /\ scan.rawTerm = Trim(inputValue)
           /\ resultsContainer =
                 IF OnResultCalls(scan.log) = <<>>
                 THEN <<NoResultsEl>>
                 ELSE BlocksOf(Len(scans), OnResultCalls(scan.log))

C16_ScanProgress ==
    \A n \in 1..MaxTimers : \A k \in 0..(MaxScans - 1) :
        (phase = "open" /\ timerCount = n /\ timers # {} /\ Len(scans) = k)
        ~> \/ phase # "open"
           \/ timerCount # n
           \/ Trim(inputValue) = <<>>
           \/ (Len(scans) = k + 1 /\ DisplayingOrEmpty)

\* after one input change the timer has fired, the one scan has gone through
\* the three files and its two results are on display
C16_Witness ==
    /\ phase = "open"
    /\ lastQuery = <<>>
    /\ timerCount = 1
    /\ Len(scans) = 1
    /\ Len(vault) = 3
    /\ DisplayingOrEmpty
    /\ ResultCount(resultsContainer, 1) = 2

(***************************************************************************)
(* C18  No scan after close: a step taken after the modal was closed       *)
(* starts no scan and leaves the results container as it is.               *)
(***************************************************************************)
C18_NoScanAfterClose ==
    [][phase = "closed"
       => /\ Len(scans') = Len(scans)
          /\ resultsContainer' = resultsContainer]_vars

(***************************************************************************)
(* C19  The display is in exactly one mode: once the modal has been        *)
(* opened the results container holds the prompt alone, the "Searching..." *)
(* indicator alone, the "No results found." notice alone, or a non-empty   *)
(* list of result blocks which are exactly the results one scan has        *)
(* delivered, in delivery order.                                           *)
(***************************************************************************)
ResultsOfOneScan ==
    /\ resultsContainer # <<>>
    /\ \E s \in 1..Len(scans) :
          resultsContainer = BlocksOf(s, OnResultCalls(scans[s].log))

C19_DisplayInOneMode ==
    phase \in {"open", "closed"}
    => \/ resultsContainer = <<PromptEl>>
       \/ resultsContainer = <<SearchingEl>>
       \/ resultsContainer = <<NoResultsEl>>
       \/ ResultsOfOneScan

\* a first scan delivered a result and was replaced; the container holds
\* the results of the second scan only
C19_Witness ==
    /\ phase = "open"
    /\ Len(scans) = 2
    /\ OnResultCalls(scans[1].log) # <<>>
    /\ OnResultCalls(scans[2].log) # <<>>
    /\ resultsContainer = BlocksOf(2, OnResultCalls(scans[2].log))

(***************************************************************************)
(* C20  A non-empty input change does not itself cancel a running scan:    *)
(* the step of the open modal that sets a new timeout leaves that timeout  *)
(* the only one pending and leaves every controller, the current           *)
(* controller, every scan and the results container unchanged; and while   *)
(* a timeout is pending, a scan whose token is not aborted and whose read  *)
(* of a qualifying file is fulfilled still appends that file's result, so  *)
(* that the container holds exactly the results the scan has delivered.    *)
(***************************************************************************)
C20_InputChangeKeepsScan ==
    [][/\ (phase = "open" /\ timerCount' = timerCount + 1)
          => /\ timers' = {timerCount'}
             /\ debounceTimer' = timerCount'
             /\ aborted' = aborted
             /\ currentSearchController' = currentSearchController
             /\ scans' = scans
             /\ resultsContainer' = resultsContainer
       /\ \A s \in 1..Len(scans) :
             (/\ timers # {}
              /\ Running(scans[s])
              /\ scans[s].owner = "modal"
              /\ ~aborted[scans[s].signal]
              /\ scans'[s] # scans[s]
              /\ scans'[s].pc # "threw"
              /\ Qualifies(scans[s].index + 1, scans[s].rawTerm))
             => /\ Len(OnResultCalls(scans'[s].log))
                      = Len(OnResultCalls(scans[s].log)) + 1
                /\ resultsContainer' = BlocksOf(s, OnResultCalls(scans'[s].log))]_vars

\* the input was changed to another query while a scan was reading; the
\* new timeout is pending, the scan's token is not aborted, the scan is
\* reading a later file and its results are on display
C20_Witness ==
    /\ phase = "open"
    /\ timers # {}
    /\ \E s \in 1..Len(scans) :
          /\ Running(scans[s])
          /\ ~aborted[scans[s].signal]
          /\ currentSearchController = scans[s].signal
          /\ Trim(inputValue) # scans[s].rawTerm
          /\ Trim(inputValue) # <<>>
          /\ OnResultCalls(scans[s].log) # <<>>
          /\ resultsContainer = BlocksOf(s, OnResultCalls(scans[s].log))
====
